---- MODULE Spec2Model ----
(***************************************************************************)
(* A model of src/main.py: the Steam user name checker.                    *)
(*                                                                         *)
(* The GUI thread (MainWindow) starts CheckerThread workers, stops them    *)
(* and receives their signals; every worker runs the file loop or the      *)
(* generate loop and probes one user name at a time.  The two files        *)
(* the program writes (checked_usernames.json, available.txt) are shared   *)
(* by all workers without any lock.                                        *)
(*                                                                         *)
(* User names, file texts and response bodies are sequences of tokens.     *)
(* The elapsed time of a probe is a wall-clock measurement that only       *)
(* appears inside the log message; it is left out of the messages.         *)
(* Display-only widgets (file_path, theme, labels) are left out.           *)
(***************************************************************************)
EXTENDS Integers, Sequences, FiniteSets, TLC

(***************************************************************************)
(* Bounds of the model.                                                    *)
(***************************************************************************)
\* calls of start_checking over the whole behaviour
MaxRuns == 2
\* candidates the workers may commit to in total: names accepted in
\* generate mode up to MaxProbes, lines taken in file mode up to MaxLines
MaxProbes == 2
MaxLines == 4
\* length of the lists handed to save_checked_usernames by itself
MaxList == 2

(***************************************************************************)
(* Inputs of the program, drawn from small sets.                           *)
(***************************************************************************)
\* string.ascii_lowercase, string.digits and "_" (main.py 24-28), one
\* representative letter and digit each
ascii_lowercase == {"a"}
digits == {"0"}
underscore == {"_"}

\* values of length_spinbox the model draws: its minimum and default
Lengths == {3}

\* states of use_digits_checkbox and use_underscore_checkbox the model draws
DigitsChoices == BOOLEAN
UnderscoreChoices == {FALSE}

NL == "\n"

\* the text files the file dialog can return: a name and what open()/read()
\* gives for it
FileNames == {"names.txt", "missing.txt"}

FileReadable(f) == f # "missing.txt"

\* names.txt holds the line "a" and an empty line
FileText(f) ==
  CASE f = "names.txt" -> <<"a", NL, NL>>
    [] OTHER           -> <<>>

\* the marker of Steam's error page, '<div class="error_ctn">' (main.py 79)
Marker == <<"<div", "error_ctn>">>

\* response bodies the transport may return: an error page, and a profile
\* page that holds the pieces of the marker apart from each other
Bodies ==
  { <<"<html>", "<div", "error_ctn>">>,
    <<"<div", "<html>", "error_ctn>">> }

(***************************************************************************)
(* Pure functions of the program.                                          *)
(***************************************************************************)
Characters(use_digits, use_underscore) ==
  ascii_lowercase \cup (IF use_digits THEN digits ELSE {})
                  \cup (IF use_underscore THEN underscore ELSE {})

\* every value random.choice can make generate_username return
generate_username(length, use_digits, use_underscore) ==
  [1..length -> Characters(use_digits, use_underscore)]

\* str.splitlines(): lines end at a line break; a text that ends with a line
\* break has no extra empty last line
RECURSIVE SplitFrom(_, _, _)
SplitFrom(text, k, cur) ==
  IF k > Len(text) THEN (IF cur = <<>> THEN <<>> ELSE <<cur>>)
  ELSE IF text[k] = NL THEN <<cur>> \o SplitFrom(text, k + 1, <<>>)
  ELSE SplitFrom(text, k + 1, Append(cur, text[k]))

splitlines(text) == SplitFrom(text, 1, <<>>)

\* `marker in text`: text has marker as a contiguous part
Contains(text, marker) ==
  \E k \in 0..(Len(text) - Len(marker)) :
     SubSeq(text, k + 1, k + Len(marker)) = marker

\* int((i + 1) / total * 100)
Percent(done, total) == (done * 100) \div total

(***************************************************************************)
(* checked_usernames.json: json.dump and json.load on a list of strings.   *)
(* The JSON text is a sequence of tokens.                                  *)
(***************************************************************************)
Tok(kind, s) == [t |-> kind, s |-> s]

LBracket == Tok("[", <<>>)
RBracket == Tok("]", <<>>)
Comma == Tok(",", <<>>)

RECURSIVE DumpItems(_)
DumpItems(list) ==
  IF list = <<>> THEN <<>>
  ELSE IF Len(list) = 1 THEN <<Tok("str", list[1])>>
  ELSE <<Tok("str", list[1]), Comma>> \o DumpItems(Tail(list))

json_dump(list) == <<LBracket>> \o DumpItems(list) \o <<RBracket>>

\* the tokens between the brackets are str (, str)*
ItemsOk(items) ==
  \/ items = <<>>
  \/ /\ Len(items) % 2 = 1
     /\ \A k \in 1..Len(items) :
          items[k].t = (IF k % 2 = 1 THEN "str" ELSE ",")

JsonOk(text) ==
  /\ Len(text) >= 2
  /\ text[1] = LBracket
  /\ text[Len(text)] = RBracket
  /\ ItemsOk(SubSeq(text, 2, Len(text) - 1))

\* a reading that stops one item short
json_load_short(text) ==
  LET items == SubSeq(text, 2, Len(text) - 1)
  IN  [k \in 1..((Len(items) - 1) \div 2) |-> items[2 * k - 1].s]

\* the list a well-formed text holds
json_load(text) ==
  LET items == SubSeq(text, 2, Len(text) - 1)
  IN  [k \in 1..((Len(items) + 1) \div 2) |-> items[2 * k - 1].s]

\* the backing store: missing, or a file with some text
MissingFile == [exists |-> FALSE, text |-> <<>>]

\* load_checked_usernames: FileNotFoundError gives [], any other exception
\* (a text json.load rejects) gives []
load_checked_usernames(file) ==
  IF ~file.exists THEN <<>>
  ELSE IF JsonOk(file.text) THEN json_load(file.text)
  ELSE <<>>

\* open(CHECKED_USERNAMES_FILE, "w") creates or truncates the file
OpenForWrite(file) == [exists |-> TRUE, text |-> <<>>]

\* how a call of save_checked_usernames can go: it writes the list; open
\* raises; the write raises after the file was truncated.  Whatever is
\* raised is printed and the call returns.
SaveOutcomes == {"ok", "open_raises", "write_raises"}

\* the buffered text is written at offset 0 of the handle when it is closed;
\* what another handle wrote beyond its end stays
WriteAtStart(file, text) ==
  [exists |-> TRUE,
   text |-> text \o SubSeq(file.text, Len(text) + 1, Len(file.text))]

\* save_checked_usernames as one call, with nothing else writing the file
save_checked_usernames(file, checked_usernames, outcome) ==
  CASE outcome = "ok" ->
         WriteAtStart(OpenForWrite(file), json_dump(checked_usernames))
    [] outcome = "open_raises" -> file
    [] outcome = "write_raises" -> OpenForWrite(file)

(***************************************************************************)
(* State.                                                                  *)
(***************************************************************************)
VARIABLES
  threads,            \* MainWindow.threads: the CheckerThread objects listed
  mainpc,             \* where the GUI thread is: event loop, start_checking
                      \* or stop_checking
  stop_button,        \* stop_button.isEnabled()
  file_button,        \* file_button.isEnabled()
  generate_button,    \* text of generate_button: "generate" or "stop"
  finished_boxes,     \* how often the box "check finished" was shown
  progress_bar,       \* progress_bar.value()
  taken_log_text,     \* the taken log, as the set of its lines
  available_log_text, \* the available log, as the set of its lines
  checkedFile,        \* checked_usernames.json
  availableFile,      \* available.txt: its lines
  runs,               \* calls of start_checking so far
  committed,          \* candidates the workers have committed to so far
  probed_earlier,     \* generated names that threads no longer listed have
                      \* sent a request for
  store_test          \* the calls made on the backing store by itself: the
                      \* list last saved, how the save went, and what the
                      \* loads since then returned

buttons == <<stop_button, file_button, generate_button, finished_boxes>>
observer == <<progress_bar, taken_log_text, available_log_text>>
files == <<checkedFile, availableFile>>

vars == <<threads, mainpc, buttons, observer, files, runs, committed,
          probed_earlier, store_test>>

Tids == 1..Len(threads)

\* the elements of a list
Range(list) == { list[k] : k \in 1..Len(list) }

\* a signal with its payload
Msg(sig, kind, username, value) ==
  [sig |-> sig, kind |-> kind, username |-> username, value |-> value]

Taken(u) == Msg("taken_log", "taken", u, 0)
Error(u) == Msg("taken_log", "error", u, 0)
NoNames == Msg("taken_log", "no_usernames", <<>>, 0)
ReadError == Msg("taken_log", "read_error", <<>>, 0)
Available(u) == Msg("available_log", "available", u, 0)
Progress(v) == Msg("progress", "progress", <<>>, v)

\* MainWindow.speed_mapping
speed_mapping(speed) ==
  CASE speed = "slow" -> 1
    [] speed = "normal" -> 3
    [] speed = "fast" -> 5

\* entries of speed_combobox the model draws
Speeds == {"slow", "normal"}

Idle == [op |-> "idle", todo |-> 0, mode |-> "none", file |-> "none",
         length |-> 0, use_digits |-> FALSE, use_underscore |-> FALSE,
         k |-> 0, gen |-> FALSE]

\* CheckerThread.__init__ followed by QThread.start()
CheckerThread(mode, usernames_file, length, use_digits, use_underscore, run) ==
  [mode |-> mode, usernames_file |-> usernames_file, length |-> length,
   use_digits |-> use_digits, use_underscore |-> use_underscore,
   checked_usernames |-> load_checked_usernames(checkedFile),
   running |-> TRUE,
   pc |-> "run",          \* position of the thread
   usernames |-> <<>>,    \* the lines read, file mode
   i |-> 0,               \* index of the for loop, file mode
   username |-> <<>>,     \* the candidate at hand
   text |-> <<>>,         \* the response body at hand
   result |-> "none",     \* how the probe at hand ended
   run |-> run,           \* the call of start_checking that made it
   probed |-> <<>>,       \* candidates it has sent a request for
   emits |-> 0]           \* result signals emitted for the probe at hand

NoStoreTest == [list |-> <<>>, saved |-> "none", loads |-> <<>>]

Finished(t) == threads[t].pc = "finished"

Live(t) == ~Finished(t)

\* the generated names the listed threads have sent a request for
GeneratedProbed ==
  UNION { Range(threads[t].probed) :
            t \in { u \in Tids : threads[u].mode = "generate" } }

Init ==
  /\ threads = <<>>
  /\ mainpc = Idle
  /\ stop_button = FALSE
  /\ file_button = TRUE
  /\ generate_button = "generate"
  /\ finished_boxes = 0
  /\ progress_bar = 0
  /\ taken_log_text = {}
  /\ available_log_text = {}
  /\ checkedFile = MissingFile
  /\ availableFile = <<>>
  /\ runs = 0
  /\ committed = 0
  /\ probed_earlier = {}
  /\ store_test = NoStoreTest

(***************************************************************************)
(* The GUI thread.                                                         *)
(***************************************************************************)
\* start_checking is entered: its loop makes num_threads threads
BeginStart(mode, file, length, use_digits, use_underscore, num_threads, gen) ==
  /\ runs < MaxRuns
  /\ mainpc' = [op |-> "starting", todo |-> num_threads, mode |-> mode,
                file |-> file, length |-> length, use_digits |-> use_digits,
                use_underscore |-> use_underscore, k |-> 0, gen |-> gen]
  /\ runs' = runs + 1
  /\ UNCHANGED <<threads, buttons, observer, files, committed, probed_earlier,
                 store_test>>

\* stop_checking is entered: stop() of the first listed thread, then wait()
BeginStop ==
  /\ threads # <<>>
  /\ mainpc' = [Idle EXCEPT !.op = "stopping", !.k = 1]
  /\ threads' = [threads EXCEPT ![1].running = FALSE]
  /\ UNCHANGED <<buttons, observer, files, runs, committed, probed_earlier,
                 store_test>>

\* choose_file: the dialog returns a file name and start_checking("file",
\* filename) runs with the defaults of its other parameters
choose_file ==
  /\ mainpc.op = "idle"
  /\ file_button
  /\ \E f \in FileNames : BeginStart("file", f, 3, TRUE, TRUE, 1, FALSE)

\* start_generation with no thread listed: start the generator threads
start_generation_start ==
  /\ mainpc.op = "idle"
  /\ threads = <<>>
  /\ \E length \in Lengths, use_digits \in DigitsChoices,
        use_underscore \in UnderscoreChoices, speed \in Speeds :
       BeginStart("generate", "none", length, use_digits, use_underscore,
                  speed_mapping(speed), TRUE)

\* start_generation with threads listed: it calls stop_checking, and sets
\* the two buttons as checking_finished has just set them
start_generation_stop ==
  /\ mainpc.op = "idle"
  /\ BeginStop

\* one round of the loop of start_checking: make a thread, start it, list
\* it; after the last round the buttons are set
start_checking ==
  /\ mainpc.op = "starting"
  /\ threads' = Append(threads,
                       CheckerThread(mainpc.mode, mainpc.file, mainpc.length,
                                     mainpc.use_digits, mainpc.use_underscore,
                                     runs))
  /\ IF mainpc.todo > 1
       THEN /\ mainpc' = [mainpc EXCEPT !.todo = mainpc.todo - 1]
            /\ UNCHANGED <<stop_button, generate_button, file_button>>
       ELSE /\ mainpc' = Idle
            /\ stop_button' = TRUE
            /\ generate_button' = IF mainpc.gen THEN "stop" ELSE generate_button
            /\ file_button' = IF mainpc.gen THEN FALSE ELSE file_button
  /\ UNCHANGED <<finished_boxes, observer, files, runs, committed,
                 probed_earlier, store_test>>

\* the stop button
stop_checking ==
  /\ mainpc.op = "idle"
  /\ stop_button
  /\ BeginStop

\* thread.wait() returns for the thread stop_checking waits for; the loop
\* goes on to the next thread, or ends: the list is emptied and
\* checking_finished shows the box
stop_checking_wait ==
  /\ mainpc.op = "stopping"
  /\ Finished(mainpc.k)
  /\ IF mainpc.k < Len(threads)
       THEN /\ threads' = [threads EXCEPT ![mainpc.k + 1].running = FALSE]
            /\ mainpc' = [mainpc EXCEPT !.k = mainpc.k + 1]
            /\ UNCHANGED <<buttons, probed_earlier>>
       ELSE /\ threads' = <<>>
            /\ probed_earlier' = probed_earlier \cup GeneratedProbed
            /\ mainpc' = Idle
            /\ stop_button' = FALSE
            /\ finished_boxes' = finished_boxes + 1
            /\ file_button' = TRUE
            /\ generate_button' = "generate"
  /\ UNCHANGED <<observer, files, runs, committed, store_test>>

\* A signal of a worker reaches its slot (update_taken_log,
\* update_available_log, update_progress) through the event queue of the GUI
\* thread, which keeps the order of emission; it is taken as delivered when
\* it is emitted.
Signal(m) ==
  /\ taken_log_text' = IF m.sig = "taken_log"
                         THEN taken_log_text \cup {m}
                         ELSE taken_log_text
  /\ available_log_text' = IF m.sig = "available_log"
                             THEN available_log_text \cup {m}
                             ELSE available_log_text
  /\ progress_bar' = IF m.sig = "progress" THEN m.value ELSE progress_bar

NoSignal == UNCHANGED observer

(***************************************************************************)
(* A worker: CheckerThread.run, thread t.  Steps of a worker that touch    *)
(* nothing another thread reads or writes are taken together with the step *)
(* before them.                                                            *)
(***************************************************************************)
\* run()'s finally: signal_finished is emitted, to no slot (the connect in
\* start_checking is commented out), and the thread ends
EndThread(w) == [w EXCEPT !.pc = "finished", !.username = <<>>,
                          !.text = <<>>, !.result = "none"]

\* check_username is entered: session.get sends the request for username
SendRequest(w, username) ==
  [w EXCEPT !.pc = "inflight", !.username = username, !.text = <<>>,
            !.result = "none", !.probed = Append(w.probed, username),
            !.emits = 0]

\* the for loop of check_usernames_from_file at index i: the loop ends
\* after the last line, `if not self.running: break` ends it, and
\* otherwise check_username is called with line i
FileLoop(t, w) ==
  IF w.i >= Len(w.usernames) \/ ~w.running
    THEN /\ threads' = [threads EXCEPT ![t] = EndThread(w)]
         /\ UNCHANGED committed
    ELSE /\ committed < MaxLines
         /\ threads' = [threads EXCEPT
                          ![t] = SendRequest(w, w.usernames[w.i + 1])]
         /\ committed' = committed + 1

\* run_checks, file mode: check_usernames_from_file opens and reads the
\* file; a failure and an empty file are reported and end the thread;
\* otherwise the for loop is entered
read_file(t) ==
  /\ threads[t].pc = "run"
  /\ threads[t].mode = "file"
  /\ LET f == threads[t].usernames_file
         usernames == splitlines(FileText(f))
     IN  IF ~FileReadable(f)
           THEN /\ Signal(ReadError)
                /\ threads' = [threads EXCEPT ![t] = EndThread(threads[t])]
                /\ UNCHANGED committed
           ELSE IF usernames = <<>>
             THEN /\ Signal(NoNames)
                  /\ threads' = [threads EXCEPT ![t] = EndThread(threads[t])]
                  /\ UNCHANGED committed
             ELSE /\ NoSignal
                  /\ FileLoop(t, [threads[t] EXCEPT !.usernames = usernames,
                                                    !.i = 0])
  /\ UNCHANGED <<mainpc, buttons, files, runs, probed_earlier, store_test>>

\* file mode: asyncio.sleep returns and check_username with it, the
\* progress is emitted, and the for loop goes on
file_next(t) ==
  /\ threads[t].pc = "sleep"
  /\ threads[t].mode = "file"
  /\ LET done == threads[t].i + 1
     IN  /\ Signal(Progress(Percent(done, Len(threads[t].usernames))))
         /\ FileLoop(t, [threads[t] EXCEPT !.i = done])
  /\ UNCHANGED <<mainpc, buttons, files, runs, probed_earlier, store_test>>

\* the test of generate_and_check_usernames on a drawn name
Accepts(checked_usernames, username) ==
  /\ username # <<>>
  /\ username \notin Range(checked_usernames)

\* a loop that comes back to `while self.running` only with a name it can
\* take
generate_loop_spin(t) ==
  /\ threads[t].pc \in {"run", "sleep"}
  /\ threads[t].mode = "generate"
  /\ \E username \in generate_username(threads[t].length,
                                        threads[t].use_digits,
                                        threads[t].use_underscore) :
       /\ Accepts(threads[t].checked_usernames, username)
       /\ IF ~threads[t].running
            THEN /\ threads' = [threads EXCEPT ![t] = EndThread(threads[t])]
                 /\ UNCHANGED committed
            ELSE /\ committed < MaxProbes
                 /\ threads' = [threads EXCEPT
                                  ![t].checked_usernames =
                                      Append(threads[t].checked_usernames,
                                             username),
                                  ![t].username = username,
                                  ![t].text = <<>>,
                                  ![t].result = "none",
                                  ![t].pc = "save"]
                 /\ committed' = committed + 1
  /\ UNCHANGED <<mainpc, buttons, observer, files, runs, probed_earlier,
                 store_test>>

\* generate mode: the while loop of generate_and_check_usernames, entered
\* from run_checks or when asyncio.sleep has returned: `while
\* self.running`, a name is drawn; a name not in the list is appended to
\* it, any other draw goes round the loop again
generate_loop(t) ==
  /\ threads[t].pc \in {"run", "sleep"}
  /\ threads[t].mode = "generate"
  /\ IF ~threads[t].running
       THEN /\ threads' = [threads EXCEPT ![t] = EndThread(threads[t])]
            /\ UNCHANGED committed
       ELSE \E username \in generate_username(threads[t].length,
                                              threads[t].use_digits,
                                              threads[t].use_underscore) :
              /\ Accepts(threads[t].checked_usernames, username)
              /\ committed < MaxProbes
              /\ threads' = [threads EXCEPT
                               ![t].checked_usernames =
                                   Append(threads[t].checked_usernames, username),
                               ![t].username = username,
                               ![t].text = <<>>,
                               ![t].result = "none",
                               ![t].pc = "save"]
              /\ committed' = committed + 1
  /\ UNCHANGED <<mainpc, buttons, observer, files, runs, probed_earlier,
                 store_test>>

\* save_checked_usernames, open(..., "w"): the file is created or
\* truncated.  The saves of the workers are taken to go well; a save that
\* raises is part of the store taken by itself (StoreSave).
save_open(t) ==
  /\ threads[t].pc = "save"
  /\ checkedFile' = OpenForWrite(checkedFile)
  /\ threads' = [threads EXCEPT ![t].pc = "dump"]
  /\ UNCHANGED <<mainpc, buttons, observer, availableFile, runs, committed,
                 probed_earlier, store_test>>

\* a save that writes the list as it was before the name at hand
save_dump_stale(t) ==
  /\ threads[t].pc = "dump"
  /\ checkedFile' =
       WriteAtStart(checkedFile,
                    json_dump(SubSeq(threads[t].checked_usernames, 1,
                                     Len(threads[t].checked_usernames) - 1)))
  /\ threads' = [threads EXCEPT
                   ![t] = SendRequest(threads[t], threads[t].username)]
  /\ UNCHANGED <<mainpc, buttons, observer, availableFile, runs, committed,
                 probed_earlier, store_test>>

\* save_checked_usernames, json.dump and the close of the file: the text
\* reaches the file; then check_username is entered
save_dump(t) ==
  /\ threads[t].pc = "dump"
  /\ checkedFile' = WriteAtStart(checkedFile,
                                 json_dump(threads[t].checked_usernames))
  /\ threads' = [threads EXCEPT
                   ![t] = SendRequest(threads[t], threads[t].username)]
  /\ UNCHANGED <<mainpc, buttons, observer, availableFile, runs, committed,
                 probed_earlier, store_test>>

\* a test that looks for the pieces of the marker anywhere in the text
Classify_pieces(text) ==
  IF \A k \in 1..Len(Marker) : Marker[k] \in Range(text)
    THEN "available" ELSE "taken"

\* the test of check_username on the response text
Classify(text) == IF Contains(text, Marker) THEN "available" ELSE "taken"

\* a check_username that gives up the request once the thread is stopped
response_abortable(t) ==
  /\ threads[t].pc = "inflight"
  /\ IF ~threads[t].running
       THEN /\ threads' = [threads EXCEPT ![t] = EndThread(threads[t])]
            /\ NoSignal
       ELSE \E text \in Bodies :
              /\ threads' = [threads EXCEPT
                               ![t].text = text,
                               ![t].result = Classify(text),
                               ![t].emits = threads[t].emits + 1,
                               ![t].pc = IF Classify(text) = "available"
                                           THEN "append" ELSE "sleep"]
              /\ Signal(IF Classify(text) = "available"
                          THEN Available(threads[t].username)
                          ELSE Taken(threads[t].username))
  /\ UNCHANGED <<mainpc, buttons, files, runs, committed, probed_earlier,
                 store_test>>

\* check_username: the response text arrives and is classified, and the
\* signal of its class is emitted
response(t) ==
  /\ threads[t].pc = "inflight"
  /\ \E text \in Bodies :
       LET result == Classify(text)
       IN  /\ threads' = [threads EXCEPT
                            ![t].text = text,
                            ![t].result = result,
                            ![t].emits = threads[t].emits + 1,
                            ![t].pc = IF result = "available"
                                        THEN "append" ELSE "sleep"]
           /\ Signal(IF result = "available"
                       THEN Available(threads[t].username)
                       ELSE Taken(threads[t].username))
  /\ UNCHANGED <<mainpc, buttons, files, runs, committed, probed_earlier,
                 store_test>>

\* a check_username that lets the exception end the thread once it is
\* reported
transport_error_fatal(t) ==
  /\ threads[t].pc = "inflight"
  /\ threads' = [threads EXCEPT ![t].result = "error",
                                ![t].emits = threads[t].emits + 1,
                                ![t].pc = "finished"]
  /\ Signal(Error(threads[t].username))
  /\ UNCHANGED <<mainpc, buttons, files, runs, committed, probed_earlier,
                 store_test>>

\* check_username: session.get or response.text() raises; the except
\* clause emits the error on the taken log
transport_error(t) ==
  /\ threads[t].pc = "inflight"
  /\ threads' = [threads EXCEPT ![t].result = "error",
                                ![t].emits = threads[t].emits + 1,
                                ![t].pc = "sleep"]
  /\ Signal(Error(threads[t].username))
  /\ UNCHANGED <<mainpc, buttons, files, runs, committed, probed_earlier,
                 store_test>>

\* check_username, after the available signal: the name is appended to
\* available.txt; or open/write raises and the except clause emits the error
append_available(t) ==
  /\ threads[t].pc = "append"
  /\ \E ok \in BOOLEAN :
       IF ok
         THEN /\ availableFile' = Append(availableFile, threads[t].username)
              /\ threads' = [threads EXCEPT ![t].pc = "sleep"]
              /\ NoSignal
         ELSE /\ threads' = [threads EXCEPT
                               ![t].pc = "sleep",
                               ![t].emits = threads[t].emits + 1]
              /\ Signal(Error(threads[t].username))
              /\ UNCHANGED availableFile
  /\ UNCHANGED <<mainpc, buttons, checkedFile, runs, committed,
                 probed_earlier, store_test>>

Worker(t) ==
  \/ read_file(t)
  \/ file_next(t)
  \/ generate_loop(t)
  \/ save_open(t)
  \/ save_dump(t)
  \/ response(t)
  \/ transport_error(t)
  \/ append_available(t)

Next ==
  \/ choose_file
  \/ start_generation_start
  \/ start_generation_stop
  \/ start_checking
  \/ stop_checking
  \/ stop_checking_wait
  \/ \E t \in Tids : Worker(t)

Spec == Init /\ [][Next]_vars

(***************************************************************************)
(* The program under fair scheduling: the GUI thread goes on with the loop *)
(* it is in, and every worker thread that can take a step takes one (a     *)
(* request that is out ends, with a response or with an exception).  The   *)
(* user is not bound to press anything.  Generation is started without     *)
(* digits, so that the names of the policy are used up after one probe.    *)
(***************************************************************************)
\* the most threads start_checking makes in one call
MaxThreads == speed_mapping("fast")

start_generation_letters == start_generation_start /\ ~mainpc'.use_digits

NextFair ==
  \/ choose_file
  \/ start_generation_letters
  \/ start_generation_stop
  \/ start_checking
  \/ stop_checking
  \/ stop_checking_wait
  \/ \E t \in Tids : Worker(t)

Fairness ==
  /\ WF_vars(start_checking)
  /\ WF_vars(stop_checking_wait)
  /\ \A t \in 1..MaxThreads : WF_vars(t \in Tids /\ Worker(t))

SpecFair == Init /\ [][NextFair]_vars /\ Fairness

(***************************************************************************)
(* The backing store taken by itself: calls of save_checked_usernames and  *)
(* load_checked_usernames one after the other, from every content the      *)
(* program can leave in the file.                                          *)
(***************************************************************************)
\* two of the generated names
StoreNames ==
  { username \in generate_username(3, TRUE, FALSE) :
      username[1] = "a" /\ username[2] = "a" }

\* lists of them, up to MaxList long
StoreLists == UNION { [1..n -> StoreNames] : n \in 0..MaxList }

\* contents of the file: none, empty (truncated), cut short, a saved list
StoreFiles ==
  {MissingFile, OpenForWrite(MissingFile),
   [exists |-> TRUE, text |-> <<LBracket, Tok("str", <<"a", "a", "a">>)>>]}
  \cup { WriteAtStart(MissingFile, json_dump(l)) : l \in StoreLists }

InitStore ==
  /\ threads = <<>>
  /\ mainpc = Idle
  /\ stop_button = FALSE
  /\ file_button = TRUE
  /\ generate_button = "generate"
  /\ finished_boxes = 0
  /\ progress_bar = 0
  /\ taken_log_text = {}
  /\ available_log_text = {}
  /\ checkedFile \in StoreFiles
  /\ availableFile = <<>>
  /\ runs = 0
  /\ committed = 0
  /\ probed_earlier = {}
  /\ store_test = NoStoreTest

StoreSave ==
  /\ \E list \in StoreLists, outcome \in SaveOutcomes :
       /\ checkedFile' = save_checked_usernames(checkedFile, list, outcome)
       /\ store_test' = [list |-> list, saved |-> outcome, loads |-> <<>>]
  /\ UNCHANGED <<threads, mainpc, buttons, observer, availableFile, runs,
                 committed, probed_earlier>>

StoreLoad ==
  /\ Len(store_test.loads) < 2
  /\ store_test' = [store_test EXCEPT
                      !.loads = Append(@, load_checked_usernames(checkedFile))]
  /\ UNCHANGED <<threads, mainpc, buttons, observer, files, runs, committed,
                 probed_earlier>>

NextStore == StoreSave \/ StoreLoad

SpecStore == InitStore /\ [][NextStore]_vars

(***************************************************************************)
(* Properties.                                                             *)
(***************************************************************************)
GenerateTids == { t \in Tids : threads[t].mode = "generate" }

FileTids == { t \in Tids : threads[t].mode = "file" }

HasDuplicate(list) ==
  \E j, k \in 1..Len(list) : j < k /\ list[j] = list[k]

NonEmptyLines(lines) == { k \in 1..Len(lines) : lines[k] # <<>> }

\* C1: within one run of generate mode, no candidate is accepted, and so
\* probed, by two workers.
C1_AcceptedByOneWorker ==
  \A t, u \in GenerateTids :
    (t # u /\ threads[t].run = threads[u].run) =>
      Range(threads[t].probed) \cap Range(threads[u].probed) = {}

\* C2: over all the runs of generate mode on the same store, no candidate
\* is probed twice: not one probed in an earlier run, not twice by one
\* worker, not by two workers.
C2_NeverProbedTwice ==
  /\ \A t \in GenerateTids :
       /\ Range(threads[t].probed) \cap probed_earlier = {}
       /\ ~HasDuplicate(threads[t].probed)
  /\ \A t, u \in GenerateTids :
       t # u => Range(threads[t].probed) \cap Range(threads[u].probed) = {}

\* C3: a worker of file mode that has gone through its file without being
\* stopped has made exactly as many probes as the file has non-empty lines.
C3_OneProbePerNonEmptyLine ==
  \A t \in FileTids :
    (/\ Finished(t)
     /\ threads[t].running
     /\ FileReadable(threads[t].usernames_file)) =>
      Len(threads[t].probed) =
        Cardinality(NonEmptyLines(splitlines(FileText(threads[t].usernames_file))))

\* a worker of file mode that has ended after its last line
Exhausted(t) ==
  /\ threads[t].mode = "file"
  /\ Finished(t)
  /\ threads[t].usernames # <<>>
  /\ threads[t].i = Len(threads[t].usernames)

\* C4: when a run of file mode has ended by exhausting its file (every
\* worker has terminated, the GUI thread is back in its event loop with no
\* signal left to deliver), the "finished" box has been shown once for
\* every run started.
C4_FinishedOncePerRun ==
  (/\ mainpc.op = "idle"
   /\ \A t \in Tids : Finished(t)
   /\ \E t \in Tids : Exhausted(t)) =>
    finished_boxes = runs

\* the listed threads were made by one call of start_checking
OneRun == \A t, u \in Tids : threads[t].run = threads[u].run

\* C5: from the moment stop_checking is entered on the workers of a run
\* until it returns, no worker passes its cancellation test to take up a new
\* candidate.
C5_NoNewProbeAfterStop ==
  [][(mainpc.op = "stopping" /\ OneRun) => (committed' = committed)]_vars

\* C6: a start asked for while a worker is live is rejected: start_checking
\* is not entered.
C6_StartWhileRunningRejected ==
  [][(mainpc.op = "idle" /\ \E t \in Tids : Live(t)) =>
       (mainpc'.op # "starting")]_vars

\* the step in which the request of thread t fails
TransportErrorStep(t) ==
  /\ Len(threads') = Len(threads)
  /\ threads[t].pc = "inflight"
  /\ threads'[t].result = "error"

\* a worker of file mode has requested the lines up to its index, each once
\* and in order; a worker of generate mode has requested no name twice
ProbedOnce(t) ==
  IF threads[t].mode = "file"
    THEN /\ Len(threads[t].probed) <= Len(threads[t].usernames)
         /\ threads[t].probed =
              SubSeq(threads[t].usernames, 1, Len(threads[t].probed))
    ELSE ~HasDuplicate(threads[t].probed)

\* C7: a request that fails puts the error of that candidate on the taken
\* log, is not sent again, leaves the worker alive at the delay before its
\* next candidate, and changes nothing of any other worker.
C7_TransportErrorContained ==
  /\ [][\A t \in Tids :
          TransportErrorStep(t) =>
            /\ Error(threads[t].username) \in taken_log_text'
            /\ threads'[t].pc = "sleep"
            /\ threads'[t].running = threads[t].running
            /\ threads'[t].probed = threads[t].probed
            /\ \A u \in Tids : u # t => threads'[u] = threads[u]]_vars
  /\ [](\A t \in Tids :
          /\ ProbedOnce(t)
          /\ threads[t].result = "error" => threads[t].pc = "sleep")

\* a worker whose first request failed is out with a request for its next
\* candidate, beside a live sibling
C7_Witness ==
  \E t, u \in Tids :
    /\ t # u
    /\ Live(u)
    /\ threads[t].pc = "inflight"
    /\ Len(threads[t].probed) = 2
    /\ threads[t].probed[1] # threads[t].probed[2]
    /\ Error(threads[t].probed[1]) \in taken_log_text
    /\ \A w \in Tids : w # t => threads[w].probed = <<>>

\* C8: the observer has the available message of a candidate only when the
\* candidate is already in available.txt.
C8_RecordedBeforeAvailable ==
  \A m \in available_log_text : m.username \in Range(availableFile)

\* C9: a response text that was fetched is classified available exactly
\* when it contains the marker and taken exactly when it does not, the
\* message of its class is emitted, and only names classified available
\* are appended to available.txt.
C9_ClassifiedByMarker ==
  /\ \A t \in Tids :
       threads[t].result \in {"available", "taken"} =>
         /\ threads[t].result = "available" <=>
              Contains(threads[t].text, Marker)
         /\ threads[t].result = "taken" <=>
              ~Contains(threads[t].text, Marker)
         /\ threads[t].result = "available" =>
              Available(threads[t].username) \in available_log_text
         /\ threads[t].result = "taken" =>
              /\ Taken(threads[t].username) \in taken_log_text
              /\ threads[t].pc # "append"
  /\ \A t \in Tids : threads[t].pc = "append" => threads[t].result = "available"
  /\ \A k \in 1..Len(availableFile) :
       Available(availableFile[k]) \in available_log_text

\* both classes have occurred: a name classified available is in
\* available.txt, and a text that holds the pieces of the marker apart was
\* classified taken
C9_Witness ==
  /\ \E t \in Tids :
       /\ threads[t].result = "available"
       /\ threads[t].pc = "sleep"
       /\ threads[t].username \in Range(availableFile)
  /\ \E t \in Tids :
       /\ threads[t].result = "taken"
       /\ \A k \in 1..Len(Marker) : Marker[k] \in Range(threads[t].text)

\* the file holds nothing json.load accepts
Unusable(file) == ~file.exists \/ ~JsonOk(file.text)

\* loads of a missing, empty or cut-short file give the empty list, and
\* two loads with no save between them give the same list
LoadsSettle ==
  /\ Unusable(checkedFile) =>
       \A k \in 1..Len(store_test.loads) : store_test.loads[k] = <<>>
  /\ Len(store_test.loads) = 2 => store_test.loads[1] = store_test.loads[2]

C11_NoWorkerForUnreadableFile ==
  \A t \in FileTids : FileReadable(threads[t].usernames_file)

\* C12: a stop asked for while no worker is live, the file exhausted, is a
\* no-op: stop_checking does not go through the threads and on to the
\* "finished" box.
C12_StopWhileIdleIsNoOp ==
  [][(/\ mainpc.op = "idle"
      /\ \A t \in Tids : Finished(t)
      /\ \E t \in Tids : Exhausted(t)) =>
       /\ mainpc'.op # "stopping"
       /\ threads' = threads
       /\ finished_boxes' = finished_boxes]_vars

\* C13: once every worker of a run has terminated, the file exhausted, the
\* list of threads is empty and the buttons are those of the idle window,
\* so that the next start is taken as a start.
C13_IdleAfterLastWorker ==
  (/\ mainpc.op = "idle"
   /\ \A t \in Tids : Finished(t)
   /\ \E t \in Tids : Exhausted(t)) =>
    /\ threads = <<>>
    /\ ~stop_button
    /\ generate_button = "generate"

\* C14: the progress values the observer is given by the workers on a file
\* stay within 0..100 and never go down.
C14_ProgressMonotone ==
  [][/\ progress_bar' \in 0..100
     /\ progress_bar' >= progress_bar]_vars

\* the names the store holds
Stored(file) == Range(load_checked_usernames(file))

\* C18: with no write of the store under way, every name a worker has
\* written to the store, in this run or an earlier one, is in the store.
C18_StoreOnlyGrows ==
  (\A t \in Tids : threads[t].pc # "dump") =>
    (GeneratedProbed \cup probed_earlier) \subseteq Stored(checkedFile)

\* C19: a probe gives the observer one result signal, not more, also when
\* the append to available.txt fails.
C19_OneResultPerProbe ==
  \A t \in Tids :
    /\ threads[t].emits <= 1
    /\ threads[t].pc \in {"sleep", "append"} => threads[t].emits = 1

\* thread t ends in this step
Terminates(t) == Live(t) /\ threads'[t].pc = "finished"

\* thread t sends a request in this step
StartsProbe(t) == Len(threads'[t].probed) > Len(threads[t].probed)

\* C16: a worker has one probe at a time; a probe that has started goes on
\* to its result signal and to the delay; a worker ends only where it tests
\* the flag between two probes, the flag cleared, or at the end of its file
\* (or when the file gave no lines).
C16_CancellationBetweenProbes ==
  [][Len(threads') = Len(threads) =>
       \A t \in Tids :
         /\ threads[t].pc = "inflight" =>
              threads'[t].pc \in {"inflight", "append", "sleep"}
         /\ threads[t].pc = "append" =>
              threads'[t].pc \in {"append", "sleep"}
         /\ (threads[t].pc = "inflight" /\ threads'[t].pc # "inflight") =>
              threads'[t].emits = 1
         /\ StartsProbe(t) =>
              /\ threads[t].pc \in {"run", "sleep", "dump"}
              /\ threads'[t].pc = "inflight"
              /\ Len(threads'[t].probed) = Len(threads[t].probed) + 1
         /\ Terminates(t) =>
              /\ threads[t].pc \in {"run", "sleep"}
              /\ \/ ~threads[t].running
                 \/ /\ threads[t].mode = "file"
                    /\ threads[t].pc = "run" =>
                         \/ ~FileReadable(threads[t].usernames_file)
                         \/ splitlines(FileText(threads[t].usernames_file)) = <<>>
                    /\ threads[t].pc = "sleep" =>
                         threads[t].i + 1 = Len(threads[t].usernames)]_vars

\* a worker whose flag is cleared has its probe behind it, result signal
\* given, and is at the delay, not yet ended
C16_Witness ==
  \E t \in Tids :
    /\ ~threads[t].running
    /\ threads[t].pc = "sleep"
    /\ threads[t].result \in {"available", "taken", "error"}
    /\ threads[t].emits = 1
    /\ mainpc.op = "stopping"

\* C17: in generate mode every name a worker has sent a request for is in
\* its checked_usernames, and the request is sent in the step that ends the
\* save of a list that holds the name: the text written is that list.
C17_PersistedBeforeProbe ==
  /\ [](\A t \in GenerateTids :
          /\ Range(threads[t].probed) \subseteq Range(threads[t].checked_usernames)
          /\ threads[t].pc \in {"save", "dump", "inflight", "append"} =>
               threads[t].username \in Range(threads[t].checked_usernames))
  /\ [][Len(threads') = Len(threads) =>
          \A t \in GenerateTids :
            StartsProbe(t) =>
              LET written == SubSeq(checkedFile'.text, 1,
                                    Len(json_dump(threads[t].checked_usernames)))
              IN  /\ threads[t].pc = "dump"
                  /\ threads'[t].probed =
                       Append(threads[t].probed, threads[t].username)
                  /\ checkedFile'.exists
                  /\ Len(checkedFile'.text) >=
                       Len(json_dump(threads[t].checked_usernames))
                  /\ JsonOk(written)
                  /\ json_load(written) = threads[t].checked_usernames
                  /\ threads[t].username \in Range(json_load(written))]_vars

\* a worker of generate mode is out with a request for its second name, both
\* names in the store it has just written
C17_Witness ==
  \E t \in GenerateTids :
    /\ threads[t].pc = "inflight"
    /\ Len(threads[t].probed) = 2
    /\ Range(threads[t].probed) \subseteq Stored(checkedFile)

\* every name of the policy of thread t is in its checked_usernames
UsedUp(t) ==
  generate_username(threads[t].length, threads[t].use_digits,
                    threads[t].use_underscore)
    \subseteq Range(threads[t].checked_usernames)

\* C15: under fair scheduling, once stop_checking is entered every worker
\* ends and stop_checking returns, the list of threads empty and the GUI
\* thread back in its event loop; also when the workers of generate mode
\* have no name left to take.
C15_StopTerminates ==
  (mainpc.op = "stopping") ~> (mainpc.op = "idle" /\ threads = <<>>)

\* stop_checking waits for its first thread while a live worker of generate
\* mode, its flag still set, has used up the names of its policy
C15_Witness ==
  /\ mainpc.op = "stopping"
  /\ \E t \in GenerateTids :
       /\ Live(t)
       /\ threads[t].running
       /\ threads[t].pc = "sleep"
       /\ UsedUp(t)

====
